---- MODULE Spec2Model ----
(***************************************************************************)
(* A model of rustyline's src/lib.rs: one call of readline(prompt), from   *)
(* the prompt write to the value handed back to the caller.                *)
(*                                                                         *)
(* Strings and byte vectors are sequences of integers 0..255.  The         *)
(* terminal's attributes are a record of flag sets and the two control     *)
(* characters the code sets.  A panic unwinds the call: it is a result of  *)
(* its own kind, and nothing after the panicking expression runs.          *)
(***************************************************************************)
EXTENDS Integers, Sequences, FiniteSets, TLC

VARIABLES
    pc,                 \* the call's position in readline / readline_raw / readline_edit
    prompt,             \* readline's argument
    term,               \* the TERM environment variable: [present, val]
    tty,                \* what isatty(STDIN_FILENO) answers
    attrs,              \* the terminal's current attributes
    attrs0,             \* the terminal's attributes when readline was called
    original_termios,   \* readline_raw's local: enable_raw_mode's Ok value
    buffer,             \* readline_edit's local Vec<u8>
    input,              \* readline_edit's local [u8; 1]
    user_input,         \* readline_raw's local: readline_edit's value
    result,             \* what readline hands to its caller
    stdout,             \* what was written to standard output, in order
    calls,              \* the operating-system calls made so far, in order
    delivered,          \* the bytes the input stream delivered to the raw loop
    zeroReads,          \* the raw loop's reads that delivered no byte
    failed,             \* the operating-system call that failed, "" while none has
    submitted,          \* the lines earlier calls of this session returned, in order
    d_pc,               \* the derive macro's position ("off" while readline is modelled)
    d_data,             \* the derive input's data: a struct, an enum or a union
    d_ident,            \* the capability name the derive macro looks for
    d_found,            \* get_field_by_attr's value
    d_out               \* the derive macro's expansion

\* the state of the derive macro (rustyline-derive), a program of its own
dvars == <<d_pc, d_data, d_ident, d_found, d_out>>

\* the state of a readline session
rvars == <<pc, prompt, term, tty, attrs, attrs0, original_termios, buffer, input,
           user_input, result, stdout, calls, delivered, zeroReads, failed,
           submitted>>

vars == <<pc, prompt, term, tty, attrs, attrs0, original_termios, buffer, input,
          user_input, result, stdout, calls, delivered, zeroReads, failed,
          submitted, dvars>>

----------------------------------------------------------------------------
(* Bounds of the model *)

\* the raw loop stops accepting bytes other than Enter at this buffer length
MaxLen == 3

\* a session is followed for this many returned lines, of at most this length
MaxSubmitted == 2

MaxSubmittedLen == 1

\* the derive input has at most this many fields
MaxFields == 3

\* the turns of the loop followed before a long line reaches MAX_LINE bytes
LongRun == 105

----------------------------------------------------------------------------
(* The TERM environment variable: not set (or not Unicode), or one of these *)

TermValues ==
    {[present |-> FALSE, val |-> ""]}
    \cup {[present |-> TRUE, val |-> v] : v \in {"xterm", "dumb", "cons25", "emacs"}}

----------------------------------------------------------------------------
(* Constants of src/lib.rs *)

\* "Maximum buffer size for the line read"
MAX_LINE == 4096

UNSUPPORTED_TERM == <<"dumb", "cons25", "emacs">>

NULL == 0
CTRL_A == 1
CTRL_B == 2
CTRL_C == 3
CTRL_D == 4
CTRL_E == 5
CTRL_F == 6
CTRL_H == 8
TAB == 9
CTRL_K == 11
CTRL_L == 12
ENTER == 13
CTRL_N == 14
CTRL_P == 16
CTRL_T == 20
CTRL_U == 21
CTRL_W == 23
ESC == 27
BACKSPACE == 127

\* '\n', the delimiter of BufRead::read_line
NEWLINE == 10

----------------------------------------------------------------------------
(* Results *)

Ok(t) == [kind |-> "Ok", text |-> t, err |-> ""]
Err(e) == [kind |-> "Err", text |-> <<>>, err |-> e]
Panic(m) == [kind |-> "Panic", text |-> <<>>, err |-> m]
NoResult == [kind |-> "None", text |-> <<>>, err |-> ""]

----------------------------------------------------------------------------
(* The environment the call runs in *)

RECURSIVE Count(_, _)
Count(s, x) ==
    IF s = <<>> THEN 0
    ELSE (IF Head(s) = x THEN 1 ELSE 0) + Count(Tail(s), x)

Range(s) == {s[i] : i \in 1..Len(s)}

Prompts == {">> ", ""}

\* termios flag sets: the flags enable_raw_mode names, and one more of each field
Cooked ==
    [iflag |-> {"BRKINT", "ICRNL", "IXON", "IUTF8"},
     oflag |-> {"OPOST", "ONLCR"},
     cflag |-> {"CREAD"},
     lflag |-> {"ECHO", "ICANON", "IEXTEN", "ISIG", "ECHOE"},
     vmin |-> 4, vtime |-> 2]

Stripped ==
    [iflag |-> {"INPCK", "ISTRIP"},
     oflag |-> {},
     cflag |-> {"CS8", "CREAD"},
     lflag |-> {"ECHO"},
     vmin |-> 1, vtime |-> 0]

AlreadyRaw ==
    [iflag |-> {},
     oflag |-> {},
     cflag |-> {"CS8"},
     lflag |-> {},
     vmin |-> 1, vtime |-> 0]

InitialAttrs == {Cooked, Stripped, AlreadyRaw}

\* the bytes a keyboard delivers in the model
\* (40 is '(' and 97 is 'a'; 195, 169 encode U+00E9)
InputBytes == {CTRL_A, CTRL_C, CTRL_D, CTRL_H, ENTER, CTRL_P, ESC, 40, 97, 169, 195}

\* what stands in the input stream when a line-oriented read is made
InputStreams ==
    { <<>>, <<NEWLINE>>, <<97>>, <<97, NEWLINE>>, <<97, 98, NEWLINE>>,
      <<97, ENTER, NEWLINE>>, <<97, NEWLINE, 98, NEWLINE>>,
      <<195, 169, NEWLINE>>, <<195, NEWLINE>> }

TcgetattrOutcomes == {"ok", "ENOTTY", "EBADF", "EIO"}
TcsetattrOutcomes == {"ok", "EIO"}

----------------------------------------------------------------------------
(* Terminal detection: is_a_tty, is_unsupported_term *)

is_a_tty == tty

\* the for loop of is_unsupported_term: every iteration assigns `unsupported`
RECURSIVE UnsupportedLoop(_, _, _)
UnsupportedLoop(t, i, unsupported) ==
    IF i > Len(UNSUPPORTED_TERM) THEN unsupported
    ELSE UnsupportedLoop(t, i + 1, t = UNSUPPORTED_TERM[i])

\* std::env::var("TERM").ok().unwrap() panics when TERM is not set
is_unsupported_term(t) ==
    IF ~t.present THEN [panic |-> TRUE, value |-> FALSE]
    ELSE [panic |-> FALSE, value |-> UnsupportedLoop(t.val, 1, FALSE)]

----------------------------------------------------------------------------
(* Raw mode: enable_raw_mode, disable_raw_mode *)

\* the attributes enable_raw_mode builds from the ones tcgetattr returned
RawOf(original_term) ==
    [iflag |-> original_term.iflag \ {"BRKINT", "ICRNL", "INPCK", "ISTRIP", "IXON"},
     oflag |-> original_term.oflag \ {"OPOST"},
     cflag |-> original_term.cflag \cup {"CS8"},
     lflag |-> original_term.lflag \ {"ECHO", "ICANON", "IEXTEN", "ISIG"},
     vmin |-> 1, vtime |-> 0]

\* a slip: Ok(raw) where the code has Ok(original_term)
EnableValueRaw(original_term) == RawOf(original_term)

\* what enable_raw_mode's Ok carries
EnableValue(original_term) == original_term

\* enable_raw_mode, given the terminal's attributes and what the two calls answer:
\* its value (errno "ok" and the saved attributes), the terminal's attributes
\* afterwards, and the calls it made
enable_raw_mode(cur, getOutcome, setOutcome) ==
    IF ~is_a_tty
    THEN [errno |-> "ENOTTY", value |-> cur, now |-> cur, made |-> <<"isatty">>]
    ELSE IF getOutcome # "ok"
    THEN [errno |-> getOutcome, value |-> cur, now |-> cur,
          made |-> <<"isatty", "tcgetattr">>]
    ELSE IF setOutcome # "ok"
    THEN [errno |-> setOutcome, value |-> cur, now |-> cur,
          made |-> <<"isatty", "tcgetattr", "tcsetattr">>]
    ELSE [errno |-> "ok", value |-> EnableValue(cur), now |-> RawOf(cur),
          made |-> <<"isatty", "tcgetattr", "tcsetattr">>]

\* readline_raw's match on enable_raw_mode's error
EnableError(errno) ==
    IF errno = "ENOTTY" THEN Err("Not a TTY")
    ELSE IF errno = "EBADF" THEN Err("Not a file descriptor")
    ELSE Err("Unknown Error")

\* disable_raw_mode: the terminal's attributes after tcsetattr(original_termios)
disable_raw_mode(cur, original, setOutcome) ==
    IF setOutcome = "ok" THEN original ELSE cur

\* a slip: the match on disable_raw_mode's value dropped
RawResultSwallowed(edited, setOutcome) == edited

\* readline_raw's value once readline_edit and disable_raw_mode have run
RawResult(edited, setOutcome) ==
    IF setOutcome # "ok" THEN Err("Failed to revert to original termios")
    ELSE edited

----------------------------------------------------------------------------
(* Strings: String::from_utf8 and BufRead::read_line *)

IsCont(b) == b >= 128 /\ b <= 191

\* the length of the sequence a lead byte starts; 0 for a byte that starts none
Utf8Width(b) ==
    IF b < 128 THEN 1
    ELSE IF b >= 194 /\ b <= 223 THEN 2
    ELSE IF b >= 224 /\ b <= 239 THEN 3
    ELSE IF b >= 240 /\ b <= 244 THEN 4
    ELSE 0

\* the second byte's range depends on the lead byte (no overlong forms, no
\* surrogates, nothing above U+10FFFF)
SecondOk(lead, b) ==
    IF lead = 224 THEN b >= 160 /\ b <= 191
    ELSE IF lead = 237 THEN b >= 128 /\ b <= 159
    ELSE IF lead = 240 THEN b >= 144 /\ b <= 191
    ELSE IF lead = 244 THEN b >= 128 /\ b <= 143
    ELSE IsCont(b)

RECURSIVE ValidUtf8(_)
ValidUtf8(s) ==
    IF s = <<>> THEN TRUE
    ELSE LET w == Utf8Width(Head(s)) IN
         IF w = 0 \/ Len(s) < w THEN FALSE
         ELSE /\ w >= 2 => SecondOk(Head(s), s[2])
              /\ \A i \in 3..w : IsCont(s[i])
              /\ ValidUtf8(SubSeq(s, w + 1, Len(s)))

\* String::from_utf8(buffer).unwrap(), wrapped in Ok by readline_edit
FromUtf8Unwrap(bytes) ==
    IF ValidUtf8(bytes) THEN Ok(bytes)
    ELSE Panic("unwrap on FromUtf8Error")

\* the bytes read_line takes from the stream: up to and including the first '\n',
\* or everything when there is none
RECURSIVE TakeLine(_)
TakeLine(stream) ==
    IF stream = <<>> THEN <<>>
    ELSE IF Head(stream) = NEWLINE THEN <<NEWLINE>>
    ELSE <<Head(stream)>> \o TakeLine(Tail(stream))

\* let mut line = String::new(); match io::stdin().read_line(&mut line) {..}
ReadLine(stream, ioOk) ==
    IF ~ioOk THEN Err("read_line: I/O error")
    ELSE IF ~ValidUtf8(TakeLine(stream)) THEN Err("stream did not contain valid UTF-8")
    ELSE Ok(TakeLine(stream))

----------------------------------------------------------------------------
(* The raw editing loop: readline_edit *)

\* what one io::stdin().read(&mut input) can do: deliver a byte, deliver
\* nothing (the stream is at its end), or fail
ReadOutcomes ==
    {[kind |-> "byte", byte |-> b] : b \in InputBytes}
    \cup {[kind |-> "zero", byte |-> 0], [kind |-> "error", byte |-> 0]}

\* input[0] after the read: numread is never looked at
InputAfterRead(inp, o) ==
    IF o.kind = "byte" THEN o.byte ELSE inp

\* the match arm that leaves the loop
IsBreak(b) == b = ENTER

\* what the other match arms print
KeyEcho(b) ==
    CASE b = CTRL_A -> "Pressed C-a"
      [] b = CTRL_B -> "Pressed C-b"
      [] b = CTRL_C -> "Pressed C-c"
      [] b = CTRL_D -> "Pressed C-d"
      [] b = CTRL_E -> "Pressed C-e"
      [] b = CTRL_F -> "Pressed C-f"
      [] b = CTRL_H -> "Pressed C-h"
      [] b = CTRL_K -> "Pressed C-k"
      [] b = CTRL_L -> "Pressed C-l"
      [] b = CTRL_N -> "Pressed C-n"
      [] b = CTRL_P -> "Pressed C-p"
      [] b = CTRL_T -> "Pressed C-t"
      [] b = CTRL_U -> "Pressed C-u"
      [] b = CTRL_W -> "Pressed C-w"
      [] b = ESC -> "Pressed esc"
      [] OTHER -> ToString(b)

\* a slip: buffer.insert(0, input[0])
PushFront(buf, b) == <<b>> \o buf

\* buffer.push(input[0]), after the match
Push(buf, b) == Append(buf, b)

----------------------------------------------------------------------------
(* The call *)

NoTermios ==
    [iflag |-> {}, oflag |-> {}, cflag |-> {}, lflag |-> {}, vmin |-> 0, vtime |-> 0]

\* no derive input
NoData == [kind |-> "None", named |-> FALSE, fields |-> <<>>]

NoField == [kind |-> "None", index |-> 0, ident |-> "", attrs |-> <<>>, msg |-> ""]

NoExpansion == [kind |-> "None", to |-> "", msg |-> ""]

\* the derive macro is not running
DeriveOff ==
    /\ d_pc = "off"
    /\ d_data = NoData
    /\ d_ident = ""
    /\ d_found = NoField
    /\ d_out = NoExpansion

Init ==
    /\ pc = "write_prompt"
    /\ prompt \in Prompts
    /\ term \in TermValues
    /\ tty \in BOOLEAN
    /\ attrs \in InitialAttrs
    /\ attrs0 = attrs
    /\ original_termios = NoTermios
    /\ buffer = <<>>
    /\ input = NULL
    /\ user_input = NoResult
    /\ result = NoResult
    /\ stdout = <<>>
    /\ calls = <<>>
    /\ delivered = <<>>
    /\ zeroReads = 0
    /\ failed = ""
    /\ submitted = <<>>
    /\ DeriveOff

\* the call ends with r
Return(r) ==
    /\ pc' = "done"
    /\ result' = r

\* try!(stdout.write(prompt.as_bytes()))
WritePrompt ==
    /\ pc = "write_prompt"
    /\ calls' = Append(calls, "write")
    /\ \E ok \in BOOLEAN :
         IF ok
         THEN /\ stdout' = Append(stdout, prompt)
              /\ pc' = "flush"
              /\ UNCHANGED <<result, failed>>
         ELSE /\ Return(Err("write: I/O error"))
              /\ failed' = "write"
              /\ UNCHANGED stdout
    /\ UNCHANGED <<prompt, term, tty, attrs, attrs0, original_termios, buffer, input,
                   user_input, delivered, zeroReads>>
    /\ UNCHANGED <<submitted, dvars>>

\* a slip: stdout.flush() without try!
FlushPromptUnchecked ==
    /\ pc = "flush"
    /\ calls' = Append(calls, "flush")
    /\ \E ok \in BOOLEAN :
         /\ pc' = "check_term"
         /\ failed' = IF ok THEN failed ELSE "flush"
    /\ UNCHANGED <<prompt, term, tty, attrs, attrs0, original_termios, buffer, input,
                   user_input, result, stdout, delivered, zeroReads>>
    /\ UNCHANGED <<submitted, dvars>>

\* try!(stdout.flush())
FlushPrompt ==
    /\ pc = "flush"
    /\ calls' = Append(calls, "flush")
    /\ \E ok \in BOOLEAN :
         IF ok
         THEN /\ pc' = "check_term"
              /\ UNCHANGED <<result, failed>>
         ELSE /\ Return(Err("flush: I/O error"))
              /\ failed' = "flush"
    /\ UNCHANGED <<prompt, term, tty, attrs, attrs0, original_termios, buffer, input,
                   user_input, stdout, delivered, zeroReads>>
    /\ UNCHANGED <<submitted, dvars>>

\* if is_unsupported_term() { .. } else { readline_raw() }
CheckTerm ==
    /\ pc = "check_term"
    /\ calls' = Append(calls, "getenv")
    /\ LET u == is_unsupported_term(term) IN
         IF u.panic
         THEN Return(Panic("unwrap on None"))
         ELSE /\ pc' = IF u.value THEN "fallback_read" ELSE "readline_raw"
              /\ UNCHANGED result
    /\ UNCHANGED <<prompt, term, tty, attrs, attrs0, original_termios, buffer, input,
                   user_input, stdout, delivered, zeroReads, failed>>
    /\ UNCHANGED <<submitted, dvars>>

\* readline's own line-oriented read, for an unsupported terminal
FallbackReadLine ==
    /\ pc = "fallback_read"
    /\ calls' = Append(calls, "read_line")
    /\ \E stream \in InputStreams, ioOk \in BOOLEAN :
         /\ Return(ReadLine(stream, ioOk))
         /\ failed' = IF ioOk THEN failed ELSE "read_line"
    /\ UNCHANGED <<prompt, term, tty, attrs, attrs0, original_termios, buffer, input,
                   user_input, stdout, delivered, zeroReads>>
    /\ UNCHANGED <<submitted, dvars>>

\* readline_raw: if is_a_tty() { .. } else { .. }
RawIsATty ==
    /\ pc = "readline_raw"
    /\ calls' = Append(calls, "isatty")
    /\ pc' = IF is_a_tty THEN "enable" ELSE "notty_read"
    /\ UNCHANGED <<prompt, term, tty, attrs, attrs0, original_termios, buffer, input,
                   user_input, result, stdout, delivered, zeroReads, failed>>
    /\ UNCHANGED <<submitted, dvars>>

\* readline_raw's line-oriented read, when standard input is no terminal
NonTtyReadLine ==
    /\ pc = "notty_read"
    /\ calls' = Append(calls, "read_line")
    /\ \E stream \in InputStreams, ioOk \in BOOLEAN :
         /\ Return(ReadLine(stream, ioOk))
         /\ failed' = IF ioOk THEN failed ELSE "read_line"
    /\ UNCHANGED <<prompt, term, tty, attrs, attrs0, original_termios, buffer, input,
                   user_input, stdout, delivered, zeroReads>>
    /\ UNCHANGED <<submitted, dvars>>

\* a slip: the error arms yield the current attributes instead of returning
EnableRawModeFallsThrough ==
    /\ pc = "enable"
    /\ \E g \in TcgetattrOutcomes, s \in TcsetattrOutcomes :
         LET e == enable_raw_mode(attrs, g, s) IN
           /\ attrs' = e.now
           /\ original_termios' = e.value
           /\ calls' = calls \o <<"enable_raw_mode">> \o e.made \o <<"readline_edit">>
           /\ failed' = IF e.errno = "ok" THEN failed ELSE e.made[Len(e.made)]
           /\ pc' = "edit"
    /\ UNCHANGED <<prompt, term, tty, attrs0, buffer, input, user_input, result,
                   stdout, delivered, zeroReads>>
    /\ UNCHANGED <<submitted, dvars>>

\* let original_termios = match enable_raw_mode() { .. }
EnableRawMode ==
    /\ pc = "enable"
    /\ \E g \in TcgetattrOutcomes, s \in TcsetattrOutcomes :
         LET e == enable_raw_mode(attrs, g, s) IN
           /\ attrs' = e.now
           /\ IF e.errno = "ok"
              THEN /\ original_termios' = e.value
                   /\ calls' = calls \o <<"enable_raw_mode">> \o e.made
                                      \o <<"readline_edit">>
                   /\ pc' = "edit"
                   /\ UNCHANGED <<result, failed>>
              ELSE /\ Return(EnableError(e.errno))
                   /\ calls' = calls \o <<"enable_raw_mode">> \o e.made
                   /\ failed' = e.made[Len(e.made)]
                   /\ UNCHANGED original_termios
    /\ UNCHANGED <<prompt, term, tty, attrs0, buffer, input, user_input, stdout,
                   delivered, zeroReads>>
    /\ UNCHANGED <<submitted, dvars>>

\* one turn of readline_edit's loop and, when it breaks, the conversion that
\* follows; the read's outcome is one of `outcomes`, and the model follows the
\* buffer up to the length `cap`
EditTurn(outcomes, cap) ==
    /\ pc = "edit"
    /\ calls' = Append(calls, "read")
    /\ \E o \in outcomes :
         LET b == InputAfterRead(input, o) IN
           IF o.kind = "error"
           THEN /\ Return(Panic("unwrap on read error"))
                /\ failed' = "read"
                /\ UNCHANGED <<buffer, input, user_input, stdout, delivered, zeroReads>>
           ELSE /\ input' = b
                /\ UNCHANGED failed
                /\ delivered' = IF o.kind = "byte" THEN Append(delivered, o.byte)
                                ELSE delivered
                /\ zeroReads' = IF o.kind = "zero" THEN zeroReads + 1 ELSE zeroReads
                /\ IF IsBreak(b)
                   THEN /\ LET r == FromUtf8Unwrap(buffer) IN
                             IF r.kind = "Panic"
                             THEN Return(r) /\ UNCHANGED user_input
                             ELSE /\ user_input' = r
                                  /\ pc' = "disable"
                                  /\ UNCHANGED result
                        /\ UNCHANGED <<buffer, stdout>>
                   ELSE /\ Len(buffer) < cap
                        /\ stdout' = Append(stdout, KeyEcho(b))
                        /\ buffer' = Push(buffer, b)
                        /\ pc' = "edit"
                        /\ UNCHANGED <<user_input, result>>
    /\ UNCHANGED <<prompt, term, tty, attrs, attrs0, original_termios>>
    /\ UNCHANGED <<submitted, dvars>>

EditStep == EditTurn(ReadOutcomes, MaxLen)

\* match disable_raw_mode(original_termios) { .. }; user_input
DisableRawMode ==
    /\ pc = "disable"
    /\ calls' = calls \o <<"disable_raw_mode", "tcsetattr">>
    /\ \E s \in TcsetattrOutcomes :
         /\ attrs' = disable_raw_mode(attrs, original_termios, s)
         /\ Return(RawResult(user_input, s))
         /\ failed' = IF s = "ok" THEN failed ELSE "tcsetattr"
    /\ UNCHANGED <<prompt, term, tty, attrs0, original_termios, buffer, input,
                   user_input, stdout, delivered, zeroReads>>
    /\ UNCHANGED <<submitted, dvars>>

\* A session: the caller calls readline again after a call that returned. The
\* function keeps nothing between calls: every local starts afresh, and only the
\* environment and the terminal's attributes are what the last call left. The
\* per-call observations start afresh too; `submitted` records what was returned.
NewCall ==
    /\ pc = "done"
    /\ result.kind \in {"Ok", "Err"}
    /\ Len(submitted) < MaxSubmitted
    /\ Len(result.text) <= MaxSubmittedLen
    /\ submitted' = IF result.kind = "Ok" THEN Append(submitted, result.text)
                    ELSE submitted
    /\ pc' = "write_prompt"
    /\ attrs0' = attrs
    /\ original_termios' = NoTermios
    /\ buffer' = <<>>
    /\ input' = NULL
    /\ user_input' = NoResult
    /\ result' = NoResult
    /\ stdout' = <<>>
    /\ calls' = <<>>
    /\ delivered' = <<>>
    /\ zeroReads' = 0
    /\ failed' = ""
    /\ UNCHANGED <<prompt, term, tty, attrs, dvars>>

InitSession ==
    /\ Init
    /\ prompt = ">> "
    /\ term.val \in {"xterm", "emacs"}
    /\ attrs = Cooked

NextSession ==
    \/ WritePrompt
    \/ FlushPrompt
    \/ CheckTerm
    \/ FallbackReadLine
    \/ RawIsATty
    \/ NonTtyReadLine
    \/ EnableRawMode
    \/ EditStep
    \/ DisableRawMode
    \/ NewCall

SpecSession == InitSession /\ [][NextSession]_vars

\* A long line: one call on a supported terminal, where every read delivers
\* the key 'a' and the buffer is followed past MAX_LINE
InitLongLine ==
    /\ Init
    /\ prompt = ">> "
    /\ term = [present |-> TRUE, val |-> "xterm"]
    /\ tty
    /\ attrs = Cooked

EditLong == EditTurn({[kind |-> "byte", byte |-> 97]}, MAX_LINE + 1)

NextLongLine ==
    \/ WritePrompt
    \/ FlushPrompt
    \/ CheckTerm
    \/ RawIsATty
    \/ EnableRawMode
    \/ EditLong

SpecLongLine == InitLongLine /\ [][NextLongLine]_vars

\* the state of that call after n turns of the loop, in closed form
AfterTyping(n) ==
    /\ pc = "edit"
    /\ prompt = ">> "
    /\ term = [present |-> TRUE, val |-> "xterm"]
    /\ tty = TRUE
    /\ attrs = RawOf(Cooked)
    /\ attrs0 = Cooked
    /\ original_termios = Cooked
    /\ buffer = [i \in 1..n |-> 97]
    /\ input = IF n = 0 THEN NULL ELSE 97
    /\ user_input = NoResult
    /\ result = NoResult
    /\ stdout = <<">> ">> \o [i \in 1..n |-> "97"]
    /\ calls = <<"write", "flush", "getenv", "isatty", "enable_raw_mode", "isatty",
                 "tcgetattr", "tcsetattr", "readline_edit">> \o [i \in 1..n |-> "read"]
    /\ delivered = [i \in 1..n |-> 97]
    /\ zeroReads = 0
    /\ failed = ""
    /\ submitted = <<>>
    /\ DeriveOff

\* SpecLongLine reaches the loop in exactly these states (an invariant of
\* SpecLongLine, for every n up to MAX_LINE + 1)
LongLineClosedForm ==
    pc = "edit" => AfterTyping(Len(buffer))

\* The end of the long line: the same call, taken up LongRun turns before the
\* buffer holds MAX_LINE bytes
InitLongTail == AfterTyping(MAX_LINE - LongRun)

NextLongTail == EditLong

SpecLongTail == InitLongTail /\ [][NextLongTail]_vars

----------------------------------------------------------------------------
(* rustyline-derive: get_field_by_attr and the derive macros *)

\* the capability names the four derive macros pass
Capabilities == {"Completer", "Highlighter", "Hinter", "Validator"}

\* an attribute: its path, whether its arguments parse as a Path, and that path
Attr(p, ok, a) == [path |-> p, parses |-> ok, arg |-> a]

\* the attribute lists a field of the input may carry
AttrLists ==
    { <<>>,
      <<Attr("rustyline", TRUE, "Completer")>>,
      <<Attr("rustyline", TRUE, "Validator")>>,
      <<Attr("serde", TRUE, "Completer")>>,
      <<Attr("rustyline", FALSE, "")>>,
      <<Attr("serde", TRUE, "Validator"), Attr("rustyline", TRUE, "Validator"),
        Attr("rustyline", TRUE, "Completer")>> }

\* the fields of a struct or union (of the variants, for an enum): named ones
\* carry an identifier, those of a tuple struct none
FieldsOf(named, lists) ==
    [i \in 1..Len(lists) |->
        [ident |-> IF named THEN "f" \o ToString(i) ELSE "", attrs |-> lists[i]]]

DeriveInputs ==
    {[kind |-> k, named |-> n, fields |-> FieldsOf(n, l)] :
        k \in {"Struct", "Enum", "Union"}, n \in BOOLEAN,
        l \in UNION {[1..m -> AttrLists] : m \in 0..MaxFields}}

SomeField(index, field) ==
    [kind |-> "Some", index |-> index, ident |-> field.ident, attrs |-> field.attrs,
     msg |-> ""]

PanicField(m) == [kind |-> "Panic", index |-> 0, ident |-> "", attrs |-> <<>>, msg |-> m]

\* the filter's closure: field.attrs.iter().any(..)
FieldMatches(field, ident) ==
    \E k \in 1..Len(field.attrs) :
        /\ field.attrs[k].path = "rustyline"
        /\ IF field.attrs[k].parses THEN field.attrs[k].arg = ident ELSE FALSE

\* fields.next() on the filtered iterator standing at `from`: the position of
\* the next field that matches, 0 for None
RECURSIVE FilterNext(_, _, _)
FilterNext(fields, ident, from) ==
    IF from > Len(fields) THEN 0
    ELSE IF FieldMatches(fields[from], ident) THEN from
    ELSE FilterNext(fields, ident, from + 1)

\* a slip: the second fields.next() and its panic left out
GetFieldFirstOnly(data, ident) ==
    IF data.kind = "Struct" /\ FilterNext(data.fields, ident, 1) # 0
    THEN SomeField(FilterNext(data.fields, ident, 1) - 1,
                   data.fields[FilterNext(data.fields, ident, 1)])
    ELSE NoField

get_field_by_attr(data, ident) ==
    IF data.kind = "Struct"
    THEN LET first == FilterNext(data.fields, ident, 1)
             second == IF first = 0 THEN 0
                       ELSE FilterNext(data.fields, ident, first + 1)
         IN  IF second # 0
             THEN PanicField("Only one " \o ident \o " field is allowed.")
             ELSE IF first = 0 THEN NoField
             ELSE SomeField(first - 1, data.fields[first])
    ELSE NoField

field_name_or_index_token(index, field) ==
    IF field.ident # "" THEN field.ident ELSE ToString(index)

\* the two branches of a derive macro's `expanded`
Expand(found) ==
    IF found.kind = "Some"
    THEN [kind |-> "delegate", to |-> field_name_or_index_token(found.index, found),
          msg |-> ""]
    ELSE [kind |-> "default", to |-> "", msg |-> ""]

\* no readline call is modelled while the derive macro runs
ReadlineOff ==
    /\ pc = "off"
    /\ prompt = ""
    /\ term = [present |-> FALSE, val |-> ""]
    /\ tty = FALSE
    /\ attrs = Cooked
    /\ attrs0 = Cooked
    /\ original_termios = NoTermios
    /\ buffer = <<>>
    /\ input = NULL
    /\ user_input = NoResult
    /\ result = NoResult
    /\ stdout = <<>>
    /\ calls = <<>>
    /\ delivered = <<>>
    /\ zeroReads = 0
    /\ failed = ""
    /\ submitted = <<>>

InitDerive ==
    /\ ReadlineOff
    /\ d_pc = "lookup"
    /\ d_data \in DeriveInputs
    /\ d_ident \in Capabilities
    /\ d_found = NoField
    /\ d_out = NoExpansion

\* if let Some((index, field)) = get_field_by_attr(&input.data, "..")
DeriveLookup ==
    /\ d_pc = "lookup"
    /\ d_found' = get_field_by_attr(d_data, d_ident)
    /\ IF d_found'.kind = "Panic"
       THEN /\ d_pc' = "done"
            /\ d_out' = [kind |-> "panic", to |-> "", msg |-> d_found'.msg]
       ELSE /\ d_pc' = "expand"
            /\ UNCHANGED d_out
    /\ UNCHANGED <<d_data, d_ident, rvars>>

\* quote! { .. }
DeriveExpand ==
    /\ d_pc = "expand"
    /\ d_out' = Expand(d_found)
    /\ d_pc' = "done"
    /\ UNCHANGED <<d_data, d_ident, d_found, rvars>>

NextDerive ==
    \/ DeriveLookup
    \/ DeriveExpand

SpecDerive == InitDerive /\ [][NextDerive]_vars

----------------------------------------------------------------------------
(* The specifications of a readline call *)

Next ==
    \/ WritePrompt
    \/ FlushPrompt
    \/ CheckTerm
    \/ FallbackReadLine
    \/ RawIsATty
    \/ NonTtyReadLine
    \/ EnableRawMode
    \/ EditStep
    \/ DisableRawMode

Spec == Init /\ [][Next]_vars

----------------------------------------------------------------------------
(* Properties *)

Done == pc = "done"

Called(x) == Count(calls, x)

\* enable_raw_mode returned Ok: readline_edit was entered
RawModeEntered == Called("readline_edit") > 0

InUnsupportedSet(t) == \E i \in 1..Len(UNSUPPORTED_TERM) : UNSUPPORTED_TERM[i] = t

Front(s) == SubSeq(s, 1, Len(s) - 1)

Last(s) == s[Len(s)]

\* complete scalar values, none of them a control character
PrintableText(s) ==
    /\ ValidUtf8(s)
    /\ \A i \in 1..Len(s) : s[i] >= 32 /\ s[i] # BACKSPACE

\* the stream delivered b to the raw loop in this step
Delivers(b) == pc = "edit" /\ delivered' = Append(delivered, b)

\* C1: when enable_raw_mode succeeded, disable_raw_mode has been attempted
\* exactly once by the time control leaves readline, on every exit path of the
\* raw loop (a failed read and a buffer that is not UTF-8 included).
C1_RestoreOnEveryExit ==
    (Done /\ RawModeEntered) => Called("disable_raw_mode") = 1

\* C2: with standard input not a terminal, or TERM one of "dumb", "cons25",
\* "emacs", readline never reads or changes the terminal's attributes and never
\* runs the key loop.
C2_RawOnlyOnSupportedTty ==
    (~tty \/ (term.present /\ InUnsupportedSet(term.val)))
        => /\ Called("tcgetattr") = 0
           /\ Called("tcsetattr") = 0
           /\ Called("read") = 0

\* C3: byte 3 delivered to the raw loop ends the read with an error: the loop is
\* left, and the byte is not added to the text.
C3_InterruptEndsRead ==
    [][Delivers(CTRL_C) =>
          /\ pc' # "edit"
          /\ user_input'.kind = "Err" \/ result'.kind = "Err"
          /\ buffer' = buffer]_vars

\* C4: in raw mode, when the stream delivers printable characters and then Enter
\* (every read delivers a byte, no call fails), readline returns Ok with exactly
\* those characters in the order typed: no Enter byte, no trailing newline.
C4_RoundTrip ==
    (/\ Done
     /\ failed = ""
     /\ zeroReads = 0
     /\ delivered # <<>>
     /\ Last(delivered) = ENTER
     /\ PrintableText(Front(delivered)))
        => /\ result = Ok(Front(delivered))
           /\ ENTER \notin Range(result.text)
           /\ NEWLINE \notin Range(result.text)

C4_Witness ==
    /\ Done
    /\ failed = ""
    /\ zeroReads = 0
    /\ delivered = <<97, 195, 169, ENTER>>
    /\ result = Ok(<<97, 195, 169>>)

\* C5: in the line-buffered fallback the string readline returns does not end
\* with a line terminator.
C5_FallbackStripsNewline ==
    (Done /\ Called("read_line") > 0 /\ result.kind = "Ok" /\ result.text # <<>>)
        => Last(result.text) \notin {NEWLINE, ENTER}

\* C6: after a call that entered raw mode and whose disable_raw_mode succeeded,
\* the terminal's attributes are the ones it had before raw mode was entered,
\* whatever was typed in between.
C6_EnableDisableIdentity ==
    (Done /\ Called("disable_raw_mode") > 0 /\ failed = "") => attrs = attrs0

C6_Witness ==
    /\ Done
    /\ Called("disable_raw_mode") > 0
    /\ failed = ""
    /\ Len(delivered) >= 3
    /\ RawOf(attrs0) # attrs0
    /\ attrs = attrs0

\* C7: byte 4 delivered to the raw loop with an empty buffer ends the read with
\* an error; with a non-empty buffer the read continues; byte 4 is not added to
\* the text in either case.
C7_EofKey ==
    [][Delivers(CTRL_D) =>
          IF buffer = <<>>
          THEN /\ pc' # "edit"
               /\ user_input'.kind = "Err" \/ result'.kind = "Err"
               /\ buffer' = buffer
          ELSE /\ pc' = "edit"
               /\ Len(buffer') <= Len(buffer)]_vars

\* C8: whatever bytes are typed, readline does not panic on them, and the edit
\* buffer never holds a partial multi-byte scalar value.
C8_NoPanicNoPartialScalar ==
    /\ ~(RawModeEntered /\ failed = "" /\ result.kind = "Panic")
    /\ ValidUtf8(buffer)

\* C9: a failed restore of the terminal's attributes is returned as an error,
\* also when the editing loop produced Ok(text).
C9_RestoreFailureReturned ==
    (Done /\ Called("disable_raw_mode") > 0 /\ failed = "tcsetattr")
        => result.kind = "Err"

C9_Witness ==
    /\ Done
    /\ Called("disable_raw_mode") > 0
    /\ failed = "tcsetattr"
    /\ user_input.kind = "Ok"
    /\ user_input.text # <<>>
    /\ result = Err("Failed to revert to original termios")

\* C10: a failed read of the input is returned to the caller as an error Result,
\* in the raw loop and in the line-buffered fallback.
C10_ReadFailureReturned ==
    (Done /\ failed \in {"read", "read_line"}) => result.kind = "Err"

\* C11: when enable_raw_mode fails, readline returns an error at once: no key
\* is read, readline_edit is not entered, disable_raw_mode is not called, and
\* the terminal's attributes are as they were.
C11_EnableFailureReturns ==
    [][(pc = "enable" /\ failed' # "") =>
          /\ pc' = "done"
          /\ result'.kind = "Err"
          /\ Count(calls', "read") = 0
          /\ Count(calls', "readline_edit") = 0
          /\ Count(calls', "disable_raw_mode") = 0
          /\ buffer' = <<>>
          /\ attrs' = attrs0]_vars

C11_Witness ==
    /\ Done
    /\ Called("enable_raw_mode") = 1
    /\ failed = "tcgetattr"
    /\ result = Err("Not a file descriptor")
    /\ Called("read") = 0

\* the control bytes of the key table, and the escape byte
RecognizedControl ==
    {CTRL_A, CTRL_B, CTRL_C, CTRL_D, CTRL_E, CTRL_F, CTRL_H, BACKSPACE, TAB, CTRL_K,
     CTRL_L, CTRL_N, CTRL_P, CTRL_T, CTRL_U, CTRL_W, ESC}

\* C12: no recognized control byte, and no escape byte, is ever part of the line
\* text: neither of the buffer nor of the text readline returns.
C12_ControlBytesNotInText ==
    /\ Range(buffer) \cap RecognizedControl = {}
    /\ Range(result.text) \cap RecognizedControl = {}

\* the bracket-matching validator of examples/input_multiline.rs, as the
\* specification describes it: Incomplete while the brackets are unbalanced
RECURSIVE Depth(_)
Depth(s) ==
    IF s = <<>> THEN 0
    ELSE Depth(Front(s)) + (IF Last(s) = 40 THEN 1 ELSE IF Last(s) = 41 THEN -1 ELSE 0)

Validate(s) == IF Depth(s) > 0 THEN "Incomplete" ELSE "Valid"

\* C13: Enter ends the read only when the validator answers Valid; on
\* Incomplete a newline is inserted into the buffer and the read stays open.
C13_SubmitAsksValidator ==
    [][(Delivers(ENTER) /\ Validate(buffer) = "Incomplete") =>
          /\ pc' = "edit"
          /\ buffer' = Append(buffer, NEWLINE)]_vars

\* the keys of the line buffer's moves, deletes, kills and transpose
LineBufferKeys ==
    {CTRL_A, CTRL_B, CTRL_E, CTRL_F, CTRL_H, BACKSPACE, CTRL_K, CTRL_U, CTRL_W, CTRL_T}

\* C14: a line buffer operation applied at its boundary (here: to the empty
\* buffer) leaves the buffer unchanged, and the read goes on.
C14_BoundaryIsNoOp ==
    [][(buffer = <<>> /\ \E k \in LineBufferKeys : Delivers(k)) =>
          /\ pc' = "edit"
          /\ buffer' = <<>>]_vars

\* C16: the prompt is written and flushed before TERM is consulted, raw mode is
\* entered or any input is read; a failed write or flush is returned as the
\* error, with none of these done.
C16_PromptFirst ==
    /\ \A i \in 1..Len(calls) :
         calls[i] \notin {"write", "flush"}
            => /\ i > 2
               /\ calls[1] = "write"
               /\ calls[2] = "flush"
               /\ stdout # <<>>
               /\ stdout[1] = prompt
    /\ failed \in {"write", "flush"}
         => /\ Done
            /\ result.kind = "Err"
            /\ Range(calls) \subseteq {"write", "flush"}
            /\ attrs = attrs0

C16_Witness ==
    /\ Done
    /\ prompt # ""
    /\ result.kind = "Ok"
    /\ Called("read") >= 2
    /\ stdout[1] = prompt
    /\ SubSeq(calls, 1, 3) = <<"write", "flush", "getenv">>

\* C18: a read that delivers no byte adds nothing to the buffer.
C18_ZeroReadAddsNothing ==
    [][(pc = "edit" /\ zeroReads' = zeroReads + 1) => buffer' = buffer]_vars

\* C19: with TERM not set, readline does not panic.
C19_TermUnsetNoPanic ==
    ~term.present => result.kind # "Panic"

\* C17: the line being read never grows beyond MAX_LINE bytes.
C17_BufferWithinMaxLine ==
    Len(buffer) <= MAX_LINE

\* C15: in a read that follows submitted lines, the first HistoryPrev (byte 16)
\* shows the line submitted last and the next one the line before it.
C15_HistoryPrevShowsSubmitted ==
    [][(submitted # <<>> /\ Delivers(CTRL_P)) =>
          LET back == Count(delivered, CTRL_P) IN
            IF back < Len(submitted)
            THEN buffer' = submitted[Len(submitted) - back]
            ELSE buffer' = buffer]_vars

\* a field carries the attribute rustyline(<capability>)
Carries(field, cap) == Attr("rustyline", TRUE, cap) \in Range(field.attrs)

Carriers == {i \in 1..Len(d_data.fields) : Carries(d_data.fields[i], d_ident)}

OnlyOneMessage ==
    CASE d_ident = "Completer" -> "Only one Completer field is allowed."
      [] d_ident = "Highlighter" -> "Only one Highlighter field is allowed."
      [] d_ident = "Hinter" -> "Only one Hinter field is allowed."
      [] d_ident = "Validator" -> "Only one Validator field is allowed."

\* C20: over a struct with exactly one field carrying rustyline(<capability>)
\* the lookup returns that field with its position, and the implementation
\* delegates to it; with no such field, or for a type that is no struct, it
\* returns none and a default implementation is generated; with two or more
\* it aborts with "Only one <capability> field is allowed."
C20_FieldLookup ==
    d_pc \in {"expand", "done"} =>
        IF d_data.kind = "Struct" /\ Cardinality(Carriers) = 1
        THEN \E i \in Carriers :
               /\ d_found = SomeField(i - 1, d_data.fields[i])
               /\ d_pc = "done" =>
                    /\ d_out.kind = "delegate"
                    /\ d_out.to = IF d_data.named THEN d_data.fields[i].ident
                                  ELSE ToString(i - 1)
        ELSE IF d_data.kind = "Struct" /\ Cardinality(Carriers) >= 2
        THEN /\ d_pc = "done"
             /\ d_found.kind = "Panic"
             /\ d_found.msg = OnlyOneMessage
             /\ d_out.kind = "panic"
        ELSE /\ d_found = NoField
             /\ d_pc = "done" => d_out.kind = "default"

C20_Witness ==
    /\ d_pc = "done"
    /\ d_data.kind = "Struct"
    /\ ~d_data.named
    /\ Len(d_data.fields) = 3
    /\ d_ident = "Validator"
    /\ Carriers = {3}
    /\ Carries(d_data.fields[1], "Completer")
    /\ d_found.index = 2
    /\ d_out = [kind |-> "delegate", to |-> "2", msg |-> ""]

====
